---- MODULE Spec2Model ----
(***************************************************************************)
(* A model of src/simulation.py: the Harlem agent-based simulation         *)
(* (PersonAgent, BusinessAgent, LandlordAgent, HarlemModel and the script   *)
(* that builds the model and runs it for num_steps steps).                  *)
(*                                                                          *)
(* Numbers.  Money amounts are integers.  A rate that the code draws with   *)
(* random.uniform is held as an integer number of percent, and a product    *)
(* "amount * rate" is (amount * percent) \div 100.  The sample sets below   *)
(* are chosen so that every such division is exact, so the model computes   *)
(* the exact rational value of the code's arithmetic (floating-point        *)
(* rounding is not modelled).  A quotient that does not come out as an      *)
(* integer (the Gini index, a mean) is a fraction [num, den] with den > 0.  *)
(*                                                                          *)
(* Attributes.  An agent is a record; an attribute that the code has not    *)
(* assigned yet is a field the record does not have, so hasattr(a, "f") is  *)
(* "f" \in DOMAIN a.                                                        *)
(***************************************************************************)
EXTENDS Integers, Sequences, FiniteSets, TLC

VARIABLES
    agents,      \* model.schedule.agents, in insertion order
    num_steps,   \* the step count chosen in the sidebar
    steps,       \* iterations of "for _ in range(num_steps)" completed
    pc,          \* "loop" | "done" | "raised" | "idle"
    rows,        \* datacollector.model_vars, one record per collect()
    reported,    \* model_df.iloc[-1] as shown by the script, <<>> before
    history,     \* history variable: the reporters' values after 0, 1, 2, ...
                 \* activations of the schedule
    x,           \* harness: the argument of a call of gini
    gini_index,  \* harness: what that call did (Pending before the call)
    agent,       \* harness: the PersonAgent under test
    agent_pc     \* harness: "new" | "stepped" | "idle"

vars == <<agents, num_steps, steps, pc, rows, reported, history,
          x, gini_index, agent, agent_pc>>

run_vars == <<agents, num_steps, steps, pc, rows, reported, history>>
gini_vars == <<x, gini_index>>
agent_vars == <<agent, agent_pc>>

----------------------------------------------------------------------------
(* Bounds and sample sets                                                   *)

MaxSteps == 3
MaxLen == 4
MaxVal == 5

\* (num_people, num_businesses, num_landlords)
Populations == {<<0, 1, 1>>, <<1, 0, 0>>, <<1, 1, 1>>, <<2, 1, 1>>}

Incomes == {20000, 40000}            \* random.randint(20000, 50000)
Rents == {1200}                      \* random.randint(800, 2000)
CapitalPcts == {0, 5}                \* random.uniform(0.0, 0.1), in percent
SpendingPcts == {50, 85}             \* random.uniform(0.5, 0.85), in percent
PropensityPcts == {90}               \* random.uniform(0.4, 0.9), in percent
Revenues == {100000}                 \* random.randint(100000, 300000)
CapitalizationPcts == {5}            \* random.uniform(0.05, 0.15), in percent
UniversalIncomes == {100, 1000}      \* random.randint(100, 1000)
ReinvestmentPcts == {5, 30}          \* random.uniform(0.05, 0.3), in percent
MonthlyRents == {10000, 30000}       \* random.randint(10000, 30000)

\* harness inputs of PersonAgent.step
TestCapitals == {0, 2000, 10000, 12000}
TestUniversals == {0, 1000, 5000}
TestPropensityPcts == {40, 90}

----------------------------------------------------------------------------
(* Arithmetic                                                               *)

Max(a, b) == IF a >= b THEN a ELSE b

\* amount * (pct / 100)
Times(amount, pct) == (amount * pct) \div 100

Rat(n, d) == [num |-> n, den |-> d]
RatSub(a, b) == Rat(a.num * b.den - b.num * a.den, a.den * b.den)
RatLess(a, b) == a.num * b.den < b.num * a.den
RatLeq(a, b) == a.num * b.den <= b.num * a.den
RatIsZero(a) == a.num = 0

RECURSIVE sum(_)
sum(s) == IF Len(s) = 0 THEN 0 ELSE Head(s) + sum(Tail(s))

\* list.insert at the first position whose element is greater
RECURSIVE Insert(_, _)
Insert(v, s) ==
    IF Len(s) = 0 THEN <<v>>
    ELSE IF v <= Head(s) THEN <<v>> \o s
    ELSE <<Head(s)>> \o Insert(v, Tail(s))

\* sorted(x, reverse=True)
RECURSIVE InsertDescending(_, _)
InsertDescending(v, s) ==
    IF Len(s) = 0 THEN <<v>>
    ELSE IF v >= Head(s) THEN <<v>> \o s
    ELSE <<Head(s)>> \o InsertDescending(v, Tail(s))

RECURSIVE sorted_descending(_)
sorted_descending(s) ==
    IF Len(s) = 0 THEN <<>> ELSE InsertDescending(Head(s), sorted_descending(Tail(s)))

RECURSIVE sorted(_)
sorted(s) == IF Len(s) = 0 THEN <<>> ELSE Insert(Head(s), sorted(Tail(s)))

hasattr(a, f) == f \in DOMAIN a

----------------------------------------------------------------------------
(* Agents                                                                   *)

PersonAgent_init(income, rent, capital_pct, spending_pct, propensity_pct) ==
    [income |-> income,
     rent |-> rent,
     capital_investment |-> Times(income, capital_pct),
     universals |-> 0,
     spending_rate |-> spending_pct,
     universal_spending_propensity |-> propensity_pct]

\* the "* 0.5" left out
CreditWholeGap(universals, gap) == universals + gap

\* "=" for "+=": the credit is replaced, not accumulated
CreditAssigned(universals, gap) == gap \div 2

\* self.universals += gap * 0.5
Credit(universals, gap) == universals + gap \div 2

\* the max(0, ...) left out
SpendUnclamped(universals, universal_spending) == universals - universal_spending

\* max(0, self.universals - self.universal_spending)
Spend(universals, universal_spending) == Max(0, universals - universal_spending)

PersonAgent_step(self) ==
    LET target_ci == self.income \div 4
        gap == Max(0, target_ci - self.capital_investment)
        credited == Credit(self.universals, gap)
        spending == Times(self.income, self.spending_rate)
        universal_spending ==
            Times(spending, self.universal_spending_propensity) \div 5
    IN [income |-> self.income,
        rent |-> self.rent,
        capital_investment |-> self.capital_investment,
        universals |-> Spend(credited, universal_spending),
        spending_rate |-> self.spending_rate,
        universal_spending_propensity |-> self.universal_spending_propensity,
        spending |-> spending,
        universal_spending |-> universal_spending]

BusinessAgent_init(annual_revenue, capitalization_pct) ==
    [annual_revenue |-> annual_revenue,
     capitalization |-> Times(annual_revenue, capitalization_pct),
     accepts_universals |-> TRUE,
     universals_received |-> 0]

\* "=" for "+=": the income of the step replaces what was received
BusinessAgent_step_assigned(self, universal_income) ==
    [self EXCEPT !.universals_received = universal_income]

BusinessAgent_step(self, universal_income) ==
    [self EXCEPT !.universals_received = @ + universal_income]

LandlordAgent_init(reinvestment_pct) ==
    [monthly_rent_collected |-> 0,
     reinvestment_rate |-> reinvestment_pct]

\* the reinvestment taken from the rent of the step before
LandlordAgent_step_stale(self, monthly_rent) ==
    [monthly_rent_collected |-> monthly_rent,
     reinvestment_rate |-> self.reinvestment_rate,
     local_reinvestment |-> Times(self.monthly_rent_collected, self.reinvestment_rate)]

LandlordAgent_step(self, monthly_rent) ==
    [monthly_rent_collected |-> monthly_rent,
     reinvestment_rate |-> self.reinvestment_rate,
     local_reinvestment |-> Times(monthly_rent, self.reinvestment_rate)]

IsPerson(a) == hasattr(a, "income")
IsBusiness(a) == hasattr(a, "annual_revenue")
IsLandlord(a) == hasattr(a, "reinvestment_rate")

----------------------------------------------------------------------------
(* HarlemModel                                                              *)

Returned(v) == [raised |-> FALSE, value |-> v]
ZeroDivisionError == [raised |-> TRUE]

Pending == [pending |-> TRUE]

\* (np.cumsum(x) at line 115 is computed and never used)
gini(xin) ==
    IF Len(xin) = 0 THEN Returned(Rat(0, 1))
    ELSE LET xs == sorted(xin)
             n == Len(xs)
             weighted == sum([i \in 1..n |-> i * xs[i]])
             total == sum(xs)
         IN IF n * total = 0 THEN ZeroDivisionError
            ELSE Returned(RatSub(Rat(2 * weighted, n * total), Rat(n + 1, n)))

HasUniversals(a) == hasattr(a, "universals")
HasRent(a) == hasattr(a, "rent")
HasIncome(a) == hasattr(a, "income")
HasCapital(a) == hasattr(a, "capital_investment")
HasReceived(a) == hasattr(a, "universals_received")

total_universals(as) ==
    LET s == SelectSeq(as, HasUniversals)
    IN sum([i \in 1..Len(s) |-> s[i].universals])

total_rent_collected(as) ==
    LET s == SelectSeq(as, HasRent)
    IN sum([i \in 1..Len(s) |-> s[i].rent])

gini_income(as) ==
    LET s == SelectSeq(as, HasIncome)
    IN gini([i \in 1..Len(s) |-> s[i].income])

\* getattr(a, 'universals', 0): every agent with capital_investment has universals
gini_wealth(as) ==
    LET s == SelectSeq(as, HasCapital)
    IN gini([i \in 1..Len(s) |->
                s[i].capital_investment
                + (IF hasattr(s[i], "universals") THEN s[i].universals ELSE 0)])

avg_business_growth(as) ==
    LET s == SelectSeq(as, HasReceived)
        growth == [i \in 1..Len(s) |-> s[i].universals_received]
    IN IF Len(growth) > 0 THEN Rat(sum(growth), Len(growth)) ELSE Rat(0, 1)

\* DataCollector.collect: one row of the model reporters, or the exception
\* that a reporter raised (it leaves model.step, and the script, at once: no
\* row is completed and no agent is activated)
collect(as) ==
    LET gi == gini_income(as)
        gw == gini_wealth(as)
    IN IF gi.raised \/ gw.raised THEN ZeroDivisionError
       ELSE Returned([Total_Universals |-> total_universals(as),
                      Gini_Income |-> gi.value,
                      Gini_Wealth |-> gw.value,
                      Total_Rent |-> total_rent_collected(as),
                      Avg_Business_Growth |-> avg_business_growth(as)])

\* a resident's step that credits the first agent's balance (state shared
\* through the model) instead of the resident's own
AgentStep_shared(as, i, universal_income, monthly_rent) ==
    [as EXCEPT ![i] =
        IF IsPerson(as[i])
        THEN PersonAgent_step([as[i] EXCEPT !.universals = as[1].universals])
        ELSE IF IsBusiness(as[i]) THEN BusinessAgent_step(as[i], universal_income[i])
        ELSE LandlordAgent_step(as[i], monthly_rent[i])]

\* agent.step() of the agent at position i, with the numbers it draws
AgentStep(as, i, universal_income, monthly_rent) ==
    [as EXCEPT ![i] =
        IF IsPerson(as[i]) THEN PersonAgent_step(as[i])
        ELSE IF IsBusiness(as[i]) THEN BusinessAgent_step(as[i], universal_income[i])
        ELSE LandlordAgent_step(as[i], monthly_rent[i])]

\* RandomActivation.step: every agent once, in the shuffled order
RECURSIVE schedule_step(_, _, _, _)
schedule_step(as, order, universal_income, monthly_rent) ==
    IF Len(order) = 0 THEN as
    ELSE schedule_step(AgentStep(as, Head(order), universal_income, monthly_rent),
                       Tail(order), universal_income, monthly_rent)

\* random.shuffle: every order of the agents' positions
RECURSIVE Orders(_)
Orders(S) ==
    IF S = {} THEN {<<>>}
    ELSE UNION {{<<i>> \o rest : rest \in Orders(S \ {i})} : i \in S}

Shuffles(n) == Orders(1..n)

\* the positions in schedule.agents of the agents of each class
PersonIndices(as) == {i \in 1..Len(as) : IsPerson(as[i])}
BusinessIndices(as) == {i \in 1..Len(as) : IsBusiness(as[i])}
LandlordIndices(as) == {i \in 1..Len(as) : IsLandlord(as[i])}

People == [income : Incomes, rent : Rents, capital_pct : CapitalPcts,
           spending_pct : SpendingPcts, propensity_pct : PropensityPcts]

HarlemModel_init(people, businesses, landlords) ==
    [i \in 1..Len(people) |->
        PersonAgent_init(people[i].income, people[i].rent, people[i].capital_pct,
                         people[i].spending_pct, people[i].propensity_pct)]
    \o [i \in 1..Len(businesses) |->
        BusinessAgent_init(businesses[i].annual_revenue, businesses[i].capitalization_pct)]
    \o [i \in 1..Len(landlords) |-> LandlordAgent_init(landlords[i])]

----------------------------------------------------------------------------
(* The run of the script: build the model, step it num_steps times, report  *)

NoHarness ==
    /\ x = <<>>
    /\ gini_index = Pending
    /\ agent = PersonAgent_init(20000, 1200, 0, 50, 90)
    /\ agent_pc = "idle"

Init ==
    /\ \E pop \in Populations :
       \E people \in [1..pop[1] -> People],
          businesses \in [1..pop[2] ->
              [annual_revenue : Revenues, capitalization_pct : CapitalizationPcts]],
          landlords \in [1..pop[3] -> ReinvestmentPcts] :
            agents = HarlemModel_init(people, businesses, landlords)
    /\ num_steps \in 1..MaxSteps
    /\ steps = 0
    /\ pc = "loop"
    /\ rows = <<>>
    /\ reported = <<>>
    /\ history = <<collect(agents)>>
    /\ NoHarness

\* model.step() with its two lines swapped: activate, then collect
HarlemModel_step_collect_last ==
    /\ pc = "loop"
    /\ steps < num_steps
    /\ \E order \in Shuffles(Len(agents)),
          universal_income \in [BusinessIndices(agents) -> UniversalIncomes],
          monthly_rent \in [LandlordIndices(agents) -> MonthlyRents] :
            /\ agents' = schedule_step(agents, order, universal_income, monthly_rent)
            /\ LET row == collect(agents')
               IN IF row.raised
                  THEN /\ pc' = "raised"
                       /\ UNCHANGED <<steps, rows, history>>
                  ELSE /\ rows' = Append(rows, row.value)
                       /\ steps' = steps + 1
                       /\ history' = Append(history, row)
                       /\ pc' = pc
    /\ UNCHANGED <<num_steps, reported, gini_vars, agent_vars>>

\* model.step(): collect, then activate every agent
HarlemModel_step ==
    /\ pc = "loop"
    /\ steps < num_steps
    /\ LET row == collect(agents)
       IN IF row.raised
          THEN /\ pc' = "raised"
               /\ UNCHANGED <<agents, steps, rows, history>>
          ELSE \E order \in Shuffles(Len(agents)),
                  universal_income \in [BusinessIndices(agents) -> UniversalIncomes],
                  monthly_rent \in [LandlordIndices(agents) -> MonthlyRents] :
                    /\ agents' = schedule_step(agents, order, universal_income, monthly_rent)
                    /\ rows' = Append(rows, row.value)
                    /\ steps' = steps + 1
                    /\ history' = Append(history, collect(agents'))
                    /\ pc' = pc
    /\ UNCHANGED <<num_steps, reported, gini_vars, agent_vars>>

\* the loop is over: model_df.iloc[-1] is what the page shows
Report ==
    /\ pc = "loop"
    /\ steps = num_steps
    /\ reported' = <<rows[Len(rows)]>>
    /\ pc' = "done"
    /\ UNCHANGED <<agents, num_steps, steps, rows, history, gini_vars, agent_vars>>

Next == HarlemModel_step \/ Report

Spec == Init /\ [][Next]_vars

NoRun ==
    /\ agents = <<>>
    /\ num_steps = 1
    /\ steps = 0
    /\ pc = "idle"
    /\ rows = <<>>
    /\ reported = <<>>
    /\ history = <<>>

----------------------------------------------------------------------------
(* HarlemModel.gini called on its own, on every sequence of up to MaxLen    *)
(* values in 0..MaxVal, in any order                                        *)

GiniInputs == UNION {[1..n -> 0..MaxVal] : n \in 0..MaxLen}

InitGini ==
    /\ NoRun
    /\ x \in GiniInputs
    /\ gini_index = Pending
    /\ agent = PersonAgent_init(20000, 1200, 0, 50, 90)
    /\ agent_pc = "idle"

gini_call ==
    /\ hasattr(gini_index, "pending")
    /\ gini_index' = gini(x)
    /\ UNCHANGED <<x, run_vars, agent_vars>>

NextGini == gini_call

SpecGini == InitGini /\ [][NextGini]_vars

----------------------------------------------------------------------------
(* PersonAgent.step called once on a resident in any state, also with a     *)
(* credit above 0 and a capital of 25% of the income or more                *)

TestAgents ==
    [income : Incomes,
     rent : Rents,
     capital_investment : TestCapitals,
     universals : TestUniversals,
     spending_rate : SpendingPcts,
     universal_spending_propensity : TestPropensityPcts]

InitPerson ==
    /\ NoRun
    /\ x = <<>>
    /\ gini_index = Pending
    /\ agent \in TestAgents
    /\ agent_pc = "new"

step_call ==
    /\ agent_pc = "new"
    /\ agent' = PersonAgent_step(agent)
    /\ agent_pc' = "stepped"
    /\ UNCHANGED <<run_vars, gini_vars>>

NextPerson == step_call

SpecPerson == InitPerson /\ [][NextPerson]_vars

----------------------------------------------------------------------------
(* Claims about HarlemModel.gini, under SpecGini                            *)

Called == hasattr(gini_index, "raised")
AllZero(s) == \A i \in 1..Len(s) : s[i] = 0
Ones(n) == [i \in 1..n |-> 1]

\* C1: gini never raises, and returns 0 for the empty sequence and for every
\* non-empty sequence whose values are all zero.
C1_GiniNeverRaisesZeroOnEmptyOrAllZero ==
    Called =>
        /\ ~gini_index.raised
        /\ AllZero(x) => RatIsZero(gini_index.value)

\* What the code does on those inputs: 0 for the empty sequence, and
\* ZeroDivisionError exactly when the values sum to 0 in a non-empty one.
GiniRaisesExactlyOnZeroSum ==
    Called =>
        /\ (Len(x) = 0 => ~gini_index.raised /\ RatIsZero(gini_index.value))
        /\ (gini_index.raised <=> (Len(x) > 0 /\ AllZero(x)))

\* C2: for every sequence x of non-negative numbers, in any order,
\* gini(x) returns a value g with 0 <= g < 1.
C2_GiniInUnitInterval ==
    Called =>
        /\ ~gini_index.raised
        /\ RatLeq(Rat(0, 1), gini_index.value)
        /\ RatLess(gini_index.value, Rat(1, 1))

\* The range holds of every value gini returns (every call that does not raise).
GiniInUnitIntervalWhenReturned ==
    (Called /\ ~gini_index.raised) =>
        /\ RatLeq(Rat(0, 1), gini_index.value)
        /\ RatLess(gini_index.value, Rat(1, 1))

\* C3: for n >= 2, gini of n-1 ones followed by N is strictly increasing in
\* N >= 1: the value returned for N is below the value for every larger N.
C3_GiniIncreasesWithLastValue ==
    \A n \in 2..MaxLen, N1 \in 1..MaxVal :
        (Called /\ x = Ones(n - 1) \o <<N1>>) =>
            /\ ~gini_index.raised
            /\ \A N2 \in (N1 + 1)..(MaxVal + 1) :
                 LET g2 == gini(Ones(n - 1) \o <<N2>>)
                 IN ~g2.raised /\ RatLess(gini_index.value, g2.value)

C3_Witness ==
    /\ Called
    /\ Len(x) >= 3
    /\ x = Ones(Len(x) - 1) \o <<3>>
    /\ ~gini_index.raised
    /\ RatLess(Rat(0, 1), gini_index.value)

----------------------------------------------------------------------------
(* Claims about PersonAgent.step, under SpecPerson                          *)

\* C5: one step started with credit u adds 0.5 * max(0, 0.25 * income -
\* capital_investment) to the credit (4000 for income 40000 and capital 2000,
\* nothing when the capital is at least 25% of the income), sets spending =
\* income * spending_rate and universal_spending = spending * propensity * 0.2,
\* and leaves the credit at max(0, u + increment - universal_spending).
\* Stated in units of 1/50000 (rates in percent, 0.2 = 1/5, 0.5 * 0.25 = 1/8).
C5_StepFormula ==
    [][agent_pc = "new" =>
        LET u == agent.universals
            gap_x100 == Max(0, 25 * agent.income - 100 * agent.capital_investment)
            spent_x50000 == agent.income * agent.spending_rate
                            * agent.universal_spending_propensity
        IN /\ 100 * agent'.spending = agent.income * agent.spending_rate
           /\ 50000 * agent'.universal_spending = spent_x50000
           /\ 50000 * agent'.universals
                = Max(0, 50000 * u + 250 * gap_x100 - spent_x50000)
           /\ (agent.income = 40000 /\ agent.capital_investment = 2000)
                => agent'.universals = Max(0, u + 4000 - agent'.universal_spending)
           /\ (4 * agent.capital_investment >= agent.income)
                => agent'.universals = Max(0, u - agent'.universal_spending)
    ]_vars

C5_Witness ==
    /\ agent_pc = "stepped"
    /\ agent.income = 40000
    /\ agent.capital_investment = 2000
    /\ agent.spending = 20000
    /\ agent.universal_spending = 1600
    /\ agent.universals = 1000 + 4000 - 1600

\* The other two cases C5 names are reached too: a capital of at least 25% of
\* the income, and a credit that the max(0, ...) holds at 0.
C5_WitnessNoIncrement ==
    /\ agent_pc = "stepped"
    /\ 4 * agent.capital_investment >= agent.income
    /\ agent.universals = 5000 - agent.universal_spending

C5_WitnessClamped ==
    /\ agent_pc = "stepped"
    /\ agent.universals = 0
    /\ agent.universal_spending > 5000

----------------------------------------------------------------------------
(* Claims about a run of HarlemModel, under Spec                            *)

Persons == PersonIndices(agents)
Businesses == BusinessIndices(agents)
Landlords == LandlordIndices(agents)

\* C4: in every reachable state every resident's credit is >= 0.
C4_CreditNonNegative ==
    \A i \in Persons : agents[i].universals >= 0

\* a resident who has stepped, whose spending exceeds the increment, and whose
\* credit the max(0, ...) therefore holds at 0
C4_Witness ==
    \E i \in Persons :
        /\ hasattr(agents[i], "universal_spending")
        /\ agents[i].universal_spending
             > (agents[i].income \div 4 - agents[i].capital_investment) \div 2
        /\ agents[i].universals = 0

\* C6: every business's universals_received is >= 0 in every reachable state,
\* is 0 at creation, and after k steps is k times a fixed per-step amount:
\* each step adds what the steps before added on average.
C6_ReceivedLinear ==
    [][\A i \in Businesses :
          /\ agents[i].universals_received >= 0
          /\ steps = 0 => agents[i].universals_received = 0
          /\ (steps >= 1 /\ steps' = steps + 1) =>
                steps * (agents'[i].universals_received - agents[i].universals_received)
                  = agents[i].universals_received
    ]_vars

\* C6 as amended: universals_received is >= 0, is 0 at creation and never
\* decreases; each step adds an amount drawn afresh from 100..1000, so after
\* k steps it lies between 100 * k and 1000 * k.
C6_ReceivedWithinDraws ==
    \A i \in Businesses :
        /\ agents[i].universals_received >= 0
        /\ steps = 0 => agents[i].universals_received = 0
        /\ 100 * steps <= agents[i].universals_received
        /\ agents[i].universals_received <= 1000 * steps

C6_Witness ==
    /\ steps = 2
    /\ \E i \in Businesses : agents[i].universals_received = 100 + 1000

\* C7: for every landlord, in every reachable state (the state after
\* construction included), the reinvestment is defined and
\* 0.05 * total_rent <= reinvestment <= 0.3 * total_rent.
C7_ReinvestmentDefinedAndBounded ==
    \A i \in Landlords :
        /\ hasattr(agents[i], "local_reinvestment")
        /\ 5 * agents[i].monthly_rent_collected <= 100 * agents[i].local_reinvestment
        /\ 100 * agents[i].local_reinvestment <= 30 * agents[i].monthly_rent_collected

\* C7 as amended: the reinvestment is defined from the landlord's first step
\* on and is then within 0.05 * total_rent and 0.3 * total_rent; after
\* construction and before the first step total_rent is 0 and the
\* reinvestment is not defined.
C7_ReinvestmentBoundedOnceStepped ==
    \A i \in Landlords :
        /\ hasattr(agents[i], "local_reinvestment") <=> steps >= 1
        /\ steps = 0 => agents[i].monthly_rent_collected = 0
        /\ hasattr(agents[i], "local_reinvestment") =>
              /\ 5 * agents[i].monthly_rent_collected <= 100 * agents[i].local_reinvestment
              /\ 100 * agents[i].local_reinvestment <= 30 * agents[i].monthly_rent_collected

\* a landlord who has stepped and reinvests 30% of a rent of 30000
C7_Witness ==
    /\ steps >= 1
    /\ \E i \in Landlords :
         /\ agents[i].monthly_rent_collected = 30000
         /\ agents[i].local_reinvestment = 9000

\* the draws of one step, fixed arbitrarily: residents do not read them
SomeIncome == [i \in Businesses |-> CHOOSE v \in UniversalIncomes : TRUE]
SomeRent == [i \in Landlords |-> CHOOSE v \in MonthlyRents : TRUE]

\* the agents in insertion order
InOrder == [i \in 1..Len(agents) |-> i]

\* C8: within one model step the activation order does not matter for
\* residents: each resident's fields after the step depend only on that
\* resident's fields before it, and whichever order the step took, the
\* resident states, Total_Universals, Gini_Income and Gini_Wealth it leaves
\* are those that activating in insertion order would have left (so any two
\* orders agree).
C8_OrderIndependent ==
    [][steps' = steps + 1 =>
        /\ \A i \in Persons : agents'[i] = PersonAgent_step(agents[i])
        /\ LET other == schedule_step(agents, InOrder, SomeIncome, SomeRent)
           IN /\ \A i \in Persons : other[i] = agents'[i]
              /\ total_universals(other) = total_universals(agents')
              /\ gini_income(other) = gini_income(agents')
              /\ gini_wealth(other) = gini_wealth(agents')
    ]_vars

\* two residents whose credits a step has moved to different values
C8_Witness ==
    /\ steps >= 1
    /\ \E i, j \in Persons :
         /\ i # j
         /\ agents[i].universals > 0
         /\ agents[j].universals > agents[i].universals

\* C9: model.step records the reporters before it activates the agents: after
\* k steps there are k rows (num_steps when the loop is over), the k-th row
\* holds the reporters' values after k-1 activations, the first
\* Total_Universals is 0, and the values after the last activation are in no
\* row: what the page reports is one activation behind the agents.
C9_RowsLagOneStep ==
    /\ Len(rows) = steps
    /\ pc = "done" => Len(rows) = num_steps
    /\ Len(history) = steps + 1
    /\ \A k \in 1..Len(rows) : ~history[k].raised /\ rows[k] = history[k].value
    /\ Len(rows) >= 1 => rows[1].Total_Universals = 0
    /\ history[Len(history)] = collect(agents)
    /\ pc = "done" =>
         /\ reported = <<history[num_steps].value>>
         /\ Businesses # {} =>
              \A k \in 1..Len(rows) : rows[k] # history[Len(history)].value

\* the run is over and the credit it ends with is in no row
C9_Witness ==
    /\ pc = "done"
    /\ num_steps = 2
    /\ Len(rows) = 2
    /\ rows[2].Total_Universals > 0
    /\ total_universals(agents) > rows[2].Total_Universals
    /\ reported[1].Total_Universals < total_universals(agents)

\* C10: a resident's step changes only universals, spending and
\* universal_spending; the credit never decreases from one step to the next:
\* after k steps it is k times a constant amount that is 0 or positive;
\* the recorded Total_Universals never decrease and Total_Rent is the same in
\* every row.  The constant is stated in units of 1/50000.
C10_CreditGrowsByConstant ==
    /\ [](/\ \A i \in Persons :
               50000 * agents[i].universals
                 = steps * Max(0, 250 * (25 * agents[i].income
                                         - 100 * agents[i].capital_investment)
                                  - agents[i].income * agents[i].spending_rate
                                    * agents[i].universal_spending_propensity)
          /\ \A k \in 1..(Len(rows) - 1) :
               /\ rows[k].Total_Universals <= rows[k + 1].Total_Universals
               /\ rows[k].Total_Rent = rows[k + 1].Total_Rent)
    /\ [][\A i \in Persons :
            /\ agents'[i].income = agents[i].income
            /\ agents'[i].rent = agents[i].rent
            /\ agents'[i].capital_investment = agents[i].capital_investment
            /\ agents'[i].spending_rate = agents[i].spending_rate
            /\ agents'[i].universal_spending_propensity
                 = agents[i].universal_spending_propensity
            /\ agents'[i].universals >= agents[i].universals
       ]_vars

\* two steps done: one resident's credit has grown twice by the same amount,
\* another's is still 0, and the two rows show the growth and the same rent
C10_Witness ==
    /\ steps = 2
    /\ Len(rows) = 2
    /\ rows[1].Total_Universals < rows[2].Total_Universals
    /\ rows[1].Total_Rent = 2 * 1200
    /\ \E i, j \in Persons :
         /\ agents[i].universals = 2 * 1400
         /\ agents[j].universals = 0

====
